---- MODULE Spec2Model ----
(***************************************************************************)
(* The /transfer route of src/index.js as a state machine.                 *)
(*                                                                         *)
(* The 'users' collection is shared by every request.  One request is one  *)
(* run of the async handler: the synchronous code between two awaits is    *)
(* one atomic step (Node runs a handler to its next await without          *)
(* interruption), and a store interaction takes effect in the step that    *)
(* resumes the handler after it.  Several requests interleave at their     *)
(* awaits.  Amounts and balances are integer-valued Numbers, far below     *)
(* 2^53, where the arithmetic of a Number is exact.  The collection holds  *)
(* the two documents /create-users inserts; that route is not run again    *)
(* while transfers are served.  An identifier is an opaque string: two     *)
(* different strings never name the same document.                         *)
(***************************************************************************)
EXTENDS Integers, Sequences, FiniteSets, TLC

\* ------------------------------------------------------------- bounds
\* number of /transfer requests the server receives
NumCalls == 2
\* the finite amounts a request carries are the multiples of 500 from -500
\* to 500 * MaxAmount
MaxAmount == 3

Calls == 1..NumCalls

\* ------------------------------------------------------------ the store
\* _id of the documents insertMany created (one per usersData entry)
UserIds == {"idAlice", "idBob"}

\* usersData: the documents /create-users inserts
usersData(id) ==
    IF id = "idAlice" THEN [_id |-> id, name |-> "Alice", balance |-> 1000]
    ELSE [_id |-> id, name |-> "Bob", balance |-> 500]

\* a well-formed ObjectId that names no document
NoSuchId == "idNone"
\* a string that is no ObjectId: findById rejects with a CastError
MalformedId == "notAnObjectId"
\* req.body fields that are absent (undefined) or the empty string
Undefined == "undefined"
EmptyString == ""

\* what req.body.fromUserId / toUserId may hold
RequestIds == UserIds \cup {NoSuchId, MalformedId, Undefined, EmptyString}

\* what req.body.amount may hold after express.json(): a finite number; no
\* value ("undefined"); a non-empty string ("string"); or Infinity, which
\* JSON.parse gives for a literal such as 1e999
Amounts ==
    [t : {"number"}, v : {500 * k : k \in (-1)..MaxAmount}]
        \cup {[t |-> "undefined", v |-> 0], [t |-> "string", v |-> 0],
              [t |-> "Infinity", v |-> 0]}

\* findById resolving to null, and a handler local not yet assigned
Null == [_id |-> "null", name |-> "", balance |-> 0]

NoResponse ==
    [n |-> 0, status |-> 0, kind |-> "none", senderBalance |-> 0, receiverBalance |-> 0]

NoRequest == [fromUserId |-> Undefined, toUserId |-> Undefined,
              amount |-> [t |-> "undefined", v |-> 0]]

VARIABLES
    users,      \* the 'users' collection: _id -> document
    pc,         \* where each request's handler is suspended
    req,        \* req.body of each request
    fromUser,   \* the handler's local fromUser
    toUser,     \* the handler's local toUser
    res,        \* the response sent for each request (n counts the sends)
    log,        \* the store interactions of each request, in order
    atStart,    \* history: the collection when the request arrived
    atEnd,      \* history: the collection when the response was sent
    overlap     \* history: another request was in flight during this one

vars == <<users, pc, req, fromUser, toUser, res, log, atStart, atEnd, overlap>>

\* ------------------------------------------------- JavaScript predicates
\* !x for an identifier field: undefined and '' are falsy
FalsyId(id) == id \in {Undefined, EmptyString}

\* !amount: undefined and 0 are falsy; a non-empty string and Infinity
\* are truthy
FalsyAmount(amount) ==
    \/ amount.t = "undefined"
    \/ amount.t = "number" /\ amount.v = 0

\* typeof amount === 'number' (Infinity is a number)
IsNumber(amount) == amount.t \in {"number", "Infinity"}

\* amount <= 0 for a value of type number (false for Infinity)
NotPositive(amount) == amount.t = "number" /\ amount.v <= 0

\* balance < amount (every finite balance is below Infinity)
LessThan(balance, amount) ==
    \/ amount.t = "Infinity"
    \/ amount.t = "number" /\ balance < amount.v

\* ------------------------------------------------------ the handler's checks
MissingField(fromUserId, toUserId, amount) ==
    FalsyId(fromUserId) \/ FalsyId(toUserId) \/ FalsyAmount(amount)

InvalidAmount(amount) == ~IsNumber(amount) \/ NotPositive(amount)

\* a handler without the check of step 1 against a transfer to oneself
SameAccountUnchecked(fromUserId, toUserId) == FALSE

\* fromUserId === toUserId
SameAccount(fromUserId, toUserId) == fromUserId = toUserId

\* step 1, the validation: the kind of the 400 sent, or "ok"
Validate(fromUserId, toUserId, amount) ==
    IF MissingField(fromUserId, toUserId, amount) THEN "MissingField"
    ELSE IF InvalidAmount(amount) THEN "InvalidAmount"
    ELSE IF SameAccount(fromUserId, toUserId) THEN "SelfTransfer"
    ELSE "ok"

\* a handler whose balance check also rejects a balance equal to the amount
InsufficientBalanceOrEqual(doc, amount) == LessThan(doc.balance - 1, amount)

\* a handler without the balance check of step 4
InsufficientBalanceOmitted(doc, amount) == FALSE

\* step 4: fromUser.balance < amount
InsufficientBalance(doc, amount) == LessThan(doc.balance, amount)

\* a handler that goes on to the saves whatever the sender's balance
CheckExistenceOnly(from, to, amount) ==
    IF from = Null THEN "SourceNotFound"
    ELSE IF to = Null THEN "DestinationNotFound"
    ELSE "ok"

\* steps 3 and 4, after both lookups settled: the kind of the 404 or 400
\* sent, or "ok"
Check(from, to, amount) ==
    IF from = Null THEN "SourceNotFound"
    ELSE IF to = Null THEN "DestinationNotFound"
    ELSE IF InsufficientBalance(from, amount) THEN "InsufficientFunds"
    ELSE "ok"

\* a handler that forgets to debit the sender
DebitForgotten(doc, amount) == doc

\* fromUser.balance -= amount
Debit(doc, amount) == [doc EXCEPT !.balance = doc.balance - amount.v]

\* a handler that credits the receiver twice
CreditDoubled(doc, amount) == [doc EXCEPT !.balance = doc.balance + 2 * amount.v]

\* a handler that forgets to credit the receiver
CreditForgotten(doc, amount) == doc

\* toUser.balance += amount
Credit(doc, amount) == [doc EXCEPT !.balance = doc.balance + amount.v]

\* ------------------------------------------------------------ the model User
\* User.findById(id): "throw" for a malformed id, null when no document has
\* the id, else a copy of the stored document
findById(coll, id) ==
    IF id = MalformedId THEN "throw"
    ELSE IF id \in DOMAIN coll THEN "found"
    ELSE "null"

\* the balance a lookup returned, -1 for null
ReadValue(doc) == IF doc = Null THEN -1 ELSE doc.balance

\* the schema's validators, run by save(): balance has min 0
SchemaValid(doc) == doc.balance >= 0

\* an update without the _id filter: every stored document takes the balance
saveUnfiltered(coll, doc) == [id \in DOMAIN coll |-> [coll[id] EXCEPT !.balance = doc.balance]]

\* doc.save(): the stored document takes the balance of the in-memory one
save(coll, doc) == [coll EXCEPT ![doc._id].balance = doc.balance]

\* ------------------------------------------------------------- responses
Send(old, status, kind, senderBalance, receiverBalance) ==
    [n |-> old.n + 1, status |-> status, kind |-> kind,
     senderBalance |-> senderBalance, receiverBalance |-> receiverBalance]

StatusOf(kind) ==
    CASE kind \in {"MissingField", "InvalidAmount", "SelfTransfer", "InsufficientFunds"} -> 400
      [] kind \in {"SourceNotFound", "DestinationNotFound"} -> 404
      [] kind = "Success" -> 200
      [] OTHER -> 500

Fail(old, kind) == Send(old, StatusOf(kind), kind, 0, 0)

\* one entry of a request's log: a store interaction is issued ("start"),
\* settles ("done", with the balance read or written, -1 for null) or is
\* rejected ("fail", with the error)
Entry(ev, op, val, err) == [ev |-> ev, op |-> op, val |-> val, err |-> err]

Started(op) == Entry("start", op, 0, "")

InFlight(c) == pc[c] \in {"findFrom", "findTo", "saveFrom", "saveTo"}

\* ------------------------------------------------------------------ Init
Init ==
    /\ users = [id \in UserIds |-> usersData(id)]
    /\ pc = [c \in Calls |-> "idle"]
    /\ req = [c \in Calls |-> NoRequest]
    /\ fromUser = [c \in Calls |-> Null]
    /\ toUser = [c \in Calls |-> Null]
    /\ res = [c \in Calls |-> NoResponse]
    /\ log = [c \in Calls |-> <<>>]
    /\ atStart = [c \in Calls |-> users]
    /\ atEnd = [c \in Calls |-> users]
    /\ overlap = [c \in Calls |-> FALSE]

\* -------------------------------------------------------------- actions
\* a handler that issues findById(fromUserId) before it validates the body
TransferLookupFirst(c, fromUserId, toUserId, amount) ==
    /\ pc[c] = "idle"
    /\ req' = [req EXCEPT ![c] = [fromUserId |-> fromUserId, toUserId |-> toUserId,
                                  amount |-> amount]]
    /\ atStart' = [atStart EXCEPT ![c] = users]
    /\ log' = [log EXCEPT ![c] = Append(@, Started("findFrom"))]
    /\ LET v == Validate(fromUserId, toUserId, amount) IN
         IF v # "ok"
         THEN /\ res' = [res EXCEPT ![c] = Fail(res[c], v)]
              /\ pc' = [pc EXCEPT ![c] = "done"]
              /\ atEnd' = [atEnd EXCEPT ![c] = users]
              /\ UNCHANGED overlap
         ELSE /\ pc' = [pc EXCEPT ![c] = "findFrom"]
              /\ overlap' = [d \in Calls |->
                                IF d = c THEN \E e \in Calls \ {c} : InFlight(e)
                                ELSE overlap[d] \/ InFlight(d)]
              /\ UNCHANGED <<res, atEnd>>
    /\ UNCHANGED <<users, fromUser, toUser>>

\* The request arrives: the validation runs, and either a 400 is sent or
\* findById(fromUserId) is issued and the handler suspends.
Transfer(c, fromUserId, toUserId, amount) ==
    /\ pc[c] = "idle"
    /\ req' = [req EXCEPT ![c] = [fromUserId |-> fromUserId, toUserId |-> toUserId,
                                  amount |-> amount]]
    /\ atStart' = [atStart EXCEPT ![c] = users]
    /\ LET v == Validate(fromUserId, toUserId, amount) IN
         IF v # "ok"
         THEN /\ res' = [res EXCEPT ![c] = Fail(res[c], v)]
              /\ pc' = [pc EXCEPT ![c] = "done"]
              /\ atEnd' = [atEnd EXCEPT ![c] = users]
              /\ UNCHANGED <<log, overlap>>
         ELSE /\ pc' = [pc EXCEPT ![c] = "findFrom"]
              /\ log' = [log EXCEPT ![c] = Append(@, Started("findFrom"))]
              /\ overlap' = [d \in Calls |->
                                IF d = c THEN \E e \in Calls \ {c} : InFlight(e)
                                ELSE overlap[d] \/ InFlight(d)]
              /\ UNCHANGED <<res, atEnd>>
    /\ UNCHANGED <<users, fromUser, toUser>>

\* a catch block that gives the sender the amount back when the receiver's
\* save is rejected
CatchCompensating(c, op, err) ==
    /\ res' = [res EXCEPT ![c] = Fail(res[c], "OperationalFailure")]
    /\ pc' = [pc EXCEPT ![c] = "done"]
    /\ log' = [log EXCEPT ![c] = Append(@, Entry("fail", op, 0, err))]
    /\ users' = IF op = "saveTo"
                 THEN [users EXCEPT ![fromUser[c]._id].balance = @ + req[c].amount.v]
                 ELSE users
    /\ atEnd' = [atEnd EXCEPT ![c] = users']

\* a catch block that swallows the error: the handler returns without
\* sending a response
CatchSilent(c, op, err) ==
    /\ pc' = [pc EXCEPT ![c] = "done"]
    /\ log' = [log EXCEPT ![c] = Append(@, Entry("fail", op, 0, err))]
    /\ users' = users
    /\ UNCHANGED <<res, atEnd>>

\* a catch block that answers a rejected lookup as an account not found
CatchAsNotFound(c, op, err) ==
    /\ res' = [res EXCEPT ![c] = Fail(res[c],
                  IF op = "findFrom" THEN "SourceNotFound"
                  ELSE IF op = "findTo" THEN "DestinationNotFound"
                  ELSE "OperationalFailure")]
    /\ pc' = [pc EXCEPT ![c] = "done"]
    /\ log' = [log EXCEPT ![c] = Append(@, Entry("fail", op, 0, err))]
    /\ users' = users
    /\ atEnd' = [atEnd EXCEPT ![c] = users']

\* the catch block: a rejected store call ends the request with a 500 and
\* writes nothing
Catch(c, op, err) ==
    /\ res' = [res EXCEPT ![c] = Fail(res[c], "OperationalFailure")]
    /\ pc' = [pc EXCEPT ![c] = "done"]
    /\ log' = [log EXCEPT ![c] = Append(@, Entry("fail", op, 0, err))]
    /\ users' = users
    /\ atEnd' = [atEnd EXCEPT ![c] = users']

\* await User.findById(fromUserId) settles; findById(toUserId) is issued
FindFrom(c, storeOk) ==
    /\ pc[c] = "findFrom"
    /\ LET r == findById(users, req[c].fromUserId)
           from == IF r = "found" THEN users[req[c].fromUserId] ELSE Null
       IN
         IF r = "throw" \/ ~storeOk
         THEN /\ Catch(c, "findFrom", IF r = "throw" THEN "CastError" ELSE "StoreError")
              /\ UNCHANGED fromUser
         ELSE /\ fromUser' = [fromUser EXCEPT ![c] = from]
              /\ pc' = [pc EXCEPT ![c] = "findTo"]
              /\ log' = [log EXCEPT ![c] =
                            @ \o << Entry("done", "findFrom", ReadValue(from), ""),
                                    Started("findTo") >>]
              /\ UNCHANGED <<users, res, atEnd>>
    /\ UNCHANGED <<req, toUser, atStart, overlap>>

\* await User.findById(toUserId) settles; the existence and balance checks
\* run, the two documents are changed in memory and fromUser.save() is issued
FindTo(c, storeOk) ==
    /\ pc[c] = "findTo"
    /\ LET r == findById(users, req[c].toUserId)
           to == IF r = "found" THEN users[req[c].toUserId] ELSE Null
           amount == req[c].amount
           k == Check(fromUser[c], to, amount)
           read == Entry("done", "findTo", ReadValue(to), "")
       IN
         IF r = "throw" \/ ~storeOk
         THEN /\ Catch(c, "findTo", IF r = "throw" THEN "CastError" ELSE "StoreError")
              /\ UNCHANGED <<fromUser, toUser>>
         ELSE IF k # "ok"
         THEN /\ toUser' = [toUser EXCEPT ![c] = to]
              /\ res' = [res EXCEPT ![c] = Fail(res[c], k)]
              /\ pc' = [pc EXCEPT ![c] = "done"]
              /\ log' = [log EXCEPT ![c] = Append(@, read)]
              /\ atEnd' = [atEnd EXCEPT ![c] = users]
              /\ UNCHANGED <<users, fromUser>>
         ELSE /\ fromUser' = [fromUser EXCEPT ![c] = Debit(@, amount)]
              /\ toUser' = [toUser EXCEPT ![c] = Credit(to, amount)]
              /\ pc' = [pc EXCEPT ![c] = "saveFrom"]
              /\ log' = [log EXCEPT ![c] = @ \o <<read, Started("saveFrom")>>]
              /\ UNCHANGED <<users, res, atEnd>>
    /\ UNCHANGED <<req, atStart, overlap>>

\* a handler that issues fromUser.save() again when it is rejected
SaveFromRetrying(c, storeOk) ==
    /\ pc[c] = "saveFrom"
    /\ IF ~storeOk
       THEN /\ Len(log[c]) < 8
            /\ log' = [log EXCEPT ![c] =
                          @ \o << Entry("fail", "saveFrom", 0, "StoreError"),
                                  Started("saveFrom") >>]
            /\ UNCHANGED <<users, pc, res, atEnd>>
       ELSE /\ users' = save(users, fromUser[c])
            /\ pc' = [pc EXCEPT ![c] = "saveTo"]
            /\ log' = [log EXCEPT ![c] =
                          @ \o << Entry("done", "saveFrom", fromUser[c].balance, ""),
                                  Started("saveTo") >>]
            /\ UNCHANGED <<res, atEnd>>
    /\ UNCHANGED <<req, fromUser, toUser, atStart, overlap>>

\* await fromUser.save() settles; toUser.save() is issued
SaveFrom(c, storeOk) ==
    /\ pc[c] = "saveFrom"
    /\ IF ~SchemaValid(fromUser[c]) \/ ~storeOk
       THEN Catch(c, "saveFrom",
                  IF SchemaValid(fromUser[c]) THEN "StoreError" ELSE "ValidationError")
       ELSE /\ users' = save(users, fromUser[c])
            /\ pc' = [pc EXCEPT ![c] = "saveTo"]
            /\ log' = [log EXCEPT ![c] =
                          @ \o << Entry("done", "saveFrom", fromUser[c].balance, ""),
                                  Started("saveTo") >>]
            /\ UNCHANGED <<res, atEnd>>
    /\ UNCHANGED <<req, fromUser, toUser, atStart, overlap>>

\* a handler that does not await toUser.save(): the 200 is sent whether or
\* not the save is rejected
SaveToUnawaited(c, storeOk) ==
    /\ pc[c] = "saveTo"
    /\ users' = IF storeOk THEN save(users, toUser[c]) ELSE users
    /\ res' = [res EXCEPT ![c] = Send(@, StatusOf("Success"), "Success",
                                      fromUser[c].balance, toUser[c].balance)]
    /\ pc' = [pc EXCEPT ![c] = "done"]
    /\ log' = [log EXCEPT ![c] =
                  Append(@, IF storeOk THEN Entry("done", "saveTo", toUser[c].balance, "")
                            ELSE Entry("fail", "saveTo", 0, "StoreError"))]
    /\ atEnd' = [atEnd EXCEPT ![c] = users']
    /\ UNCHANGED <<req, fromUser, toUser, atStart, overlap>>

\* await toUser.save() settles; the 200 is sent
SaveTo(c, storeOk) ==
    /\ pc[c] = "saveTo"
    /\ IF ~SchemaValid(toUser[c]) \/ ~storeOk
       THEN Catch(c, "saveTo",
                  IF SchemaValid(toUser[c]) THEN "StoreError" ELSE "ValidationError")
       ELSE /\ users' = save(users, toUser[c])
            /\ res' = [res EXCEPT ![c] = Send(@, StatusOf("Success"), "Success",
                                              fromUser[c].balance, toUser[c].balance)]
            /\ pc' = [pc EXCEPT ![c] = "done"]
            /\ log' = [log EXCEPT ![c] =
                          Append(@, Entry("done", "saveTo", toUser[c].balance, ""))]
            /\ atEnd' = [atEnd EXCEPT ![c] = users']
    /\ UNCHANGED <<req, fromUser, toUser, atStart, overlap>>

Next ==
    \/ \E c \in Calls, f \in RequestIds, t \in RequestIds, a \in Amounts :
          Transfer(c, f, t, a)
    \/ \E c \in Calls, storeOk \in BOOLEAN : FindFrom(c, storeOk)
    \/ \E c \in Calls, storeOk \in BOOLEAN : FindTo(c, storeOk)
    \/ \E c \in Calls, storeOk \in BOOLEAN : SaveFrom(c, storeOk)
    \/ \E c \in Calls, storeOk \in BOOLEAN : SaveTo(c, storeOk)

Spec == Init /\ [][Next]_vars

\* Every store call a request awaits settles: the store resolves or rejects
\* it, and the handler resumes.  Nothing obliges a request to arrive.
StoreSettles ==
    \A c \in Calls :
        /\ WF_vars(\E storeOk \in BOOLEAN : FindFrom(c, storeOk))
        /\ WF_vars(\E storeOk \in BOOLEAN : FindTo(c, storeOk))
        /\ WF_vars(\E storeOk \in BOOLEAN : SaveFrom(c, storeOk))
        /\ WF_vars(\E storeOk \in BOOLEAN : SaveTo(c, storeOk))

FairSpec == Spec /\ StoreSettles

\* ============================================================ properties
Done(c) == pc[c] = "done"

\* how many entries of the request's log have this event and operation
Count(c, ev, op) ==
    Cardinality({i \in DOMAIN log[c] : log[c][i].ev = ev /\ log[c][i].op = op})

\* the store writes the request performed
Writes(c) == Count(c, "done", "saveFrom") + Count(c, "done", "saveTo")

\* no store interaction of the request was rejected
NoStoreFailure(c) == \A i \in DOMAIN log[c] : log[c][i].ev # "fail"

\* an identifier field that is present and non-empty
PresentId(id) == id # Undefined /\ id # EmptyString

\* an amount that is a finite number above zero
PositiveFinite(amount) == amount.t = "number" /\ amount.v > 0

\* a request that meets the three validation preconditions
Validated(r) ==
    /\ PresentId(r.fromUserId) /\ PresentId(r.toUserId)
    /\ PositiveFinite(r.amount)
    /\ r.fromUserId # r.toUserId

\* the case of C1: a finished, validated request between two accounts of the
\* collection, with the funds, that no other request overlapped and no store
\* call failed
C1_Case(c) ==
    /\ Done(c) /\ Validated(req[c])
    /\ req[c].fromUserId \in DOMAIN atStart[c]
    /\ req[c].toUserId \in DOMAIN atStart[c]
    /\ atStart[c][req[c].fromUserId].balance >= req[c].amount.v
    /\ ~overlap[c]
    /\ NoStoreFailure(c)

\* C1: a validated transfer between two accounts with sufficient funds
\* (balance = amount included), run alone and without store failure,
\* succeeds; it reports sourceBalance - amount and
\* destinationBalance + amount, whose sum is the sum before, and the two
\* stored balances after it are the reported ones.
C1_TransferMovesAmount ==
    \A c \in Calls :
        C1_Case(c) =>
            LET src == req[c].fromUserId
                dst == req[c].toUserId
                x == req[c].amount.v
                s == atStart[c][src].balance
                d == atStart[c][dst].balance
            IN /\ res[c].kind = "Success" /\ res[c].status = 200
               /\ res[c].senderBalance = s - x
               /\ res[c].receiverBalance = d + x
               /\ res[c].senderBalance + res[c].receiverBalance = s + d
               /\ atEnd[c][src].balance = res[c].senderBalance
               /\ atEnd[c][dst].balance = res[c].receiverBalance

\* a transfer of the whole source balance succeeded
C1_Witness ==
    \E c \in Calls :
        /\ C1_Case(c)
        /\ atStart[c][req[c].fromUserId].balance = req[c].amount.v
        /\ res[c].kind = "Success"

\* C2: every stored balance is >= 0, and no request issues (or is about to
\* issue) a save carrying a negative balance, whatever the interleaving and
\* whichever store calls fail.
C2_BalancesNonNegative ==
    /\ \A id \in DOMAIN users : users[id].balance >= 0
    /\ \A c \in Calls :
          /\ pc[c] = "saveFrom" => fromUser[c].balance >= 0
          /\ pc[c] \in {"saveFrom", "saveTo"} => toUser[c].balance >= 0
          /\ \A i \in DOMAIN log[c] :
                log[c][i].op \in {"saveFrom", "saveTo"} => log[c][i].val >= 0

\* two overlapping transfers of the whole balance from one source both
\* succeeded, and the source holds 0
C2_Witness ==
    \E c, d \in Calls :
        /\ c # d /\ overlap[c] /\ overlap[d]
        /\ res[c].kind = "Success" /\ res[d].kind = "Success"
        /\ req[c].fromUserId = req[d].fromUserId
        /\ req[c].amount.v + req[d].amount.v > atStart[c][req[c].fromUserId].balance
        /\ users[req[c].fromUserId].balance = 0

\* the case of C3: the only two requests received overlapped, both debit
\* the same source by the same amount, and both reported success
C3_Case(c, d) ==
    /\ c # d /\ Done(c) /\ Done(d)
    /\ \A e \in Calls \ {c, d} : pc[e] = "idle"
    /\ overlap[c] /\ overlap[d]
    /\ res[c].kind = "Success" /\ res[d].kind = "Success"
    /\ req[c].fromUserId = req[d].fromUserId
    /\ req[c].amount = req[d].amount

\* the source balance before either of two requests
C3_Before(c, d) ==
    LET src == req[c].fromUserId
        bc == atStart[c][src].balance
        bd == atStart[d][src].balance
    IN IF bc >= bd THEN bc ELSE bd

\* C3: when two overlapping transfers of x from one source both succeed,
\* the source is left at before - 2x or, when both read it before either
\* wrote it (both report the same sender balance), at before - x: one of the
\* two debits is lost.  The witness is the lost update, which refutes
\* 'final = before - N*x' for this engine.
C3_LostUpdate ==
    \A c, d \in Calls :
        C3_Case(c, d) =>
            LET src == req[c].fromUserId
                x == req[c].amount.v
                b == C3_Before(c, d)
            IN /\ users[src].balance \in {b - x, b - 2 * x}
               /\ users[src].balance = b - x
                     <=> res[c].senderBalance = res[d].senderBalance
               /\ res[c].senderBalance = res[d].senderBalance
                     => res[c].senderBalance = b - x

\* two transfers of x with 2x <= before both succeeded and the source holds
\* before - x
C3_Witness ==
    \E c, d \in Calls :
        /\ C3_Case(c, d)
        /\ 2 * req[c].amount.v <= C3_Before(c, d)
        /\ users[req[c].fromUserId].balance = C3_Before(c, d) - req[c].amount.v

\* the value of the log entry of this event and operation (one at most)
ValueOf(c, ev, op) ==
    LET i == CHOOSE i \in DOMAIN log[c] : log[c][i].ev = ev /\ log[c][i].op = op
    IN log[c][i].val

\* the case of C4: the source write succeeded and the destination write failed
C4_Case(c) ==
    /\ Done(c)
    /\ Count(c, "done", "saveFrom") = 1
    /\ Count(c, "fail", "saveTo") = 1

\* C4: when the source write succeeds and the destination write fails, the
\* request ends with OperationalFailure (500), the source write carried the
\* balance read minus the amount and is the request's only write (the failure
\* is the last store interaction); run alone, it leaves the source debited by
\* the amount and the destination as it was.
C4_PartialFailure ==
    \A c \in Calls :
        C4_Case(c) =>
            LET src == req[c].fromUserId
                dst == req[c].toUserId
                x == req[c].amount.v
            IN /\ res[c].kind = "OperationalFailure" /\ res[c].status = 500
               /\ res[c].n = 1
               /\ Writes(c) = 1
               /\ log[c][Len(log[c])].ev = "fail"
               /\ ValueOf(c, "done", "saveFrom") = ValueOf(c, "done", "findFrom") - x
               /\ ~overlap[c] =>
                     /\ atEnd[c][src].balance = atStart[c][src].balance - x
                     /\ atEnd[c][dst].balance = atStart[c][dst].balance
                     /\ users[src].balance = atStart[c][src].balance - x
                           \/ \E d \in Calls \ {c} : pc[d] # "idle"

\* a request run alone ended with the source debited and the destination's
\* save rejected
C4_Witness ==
    \E c \in Calls :
        /\ C4_Case(c) /\ ~overlap[c]
        /\ users[req[c].fromUserId].balance
              = atStart[c][req[c].fromUserId].balance - req[c].amount.v
        /\ users[req[c].toUserId].balance = atStart[c][req[c].toUserId].balance

\* C5: a request with both identifiers present and a numeric amount <= 0
\* (zero included) ends with InvalidAmount and performs no store write.
C5_NonPositiveIsInvalidAmount ==
    \A c \in Calls :
        ( /\ Done(c)
          /\ PresentId(req[c].fromUserId) /\ PresentId(req[c].toUserId)
          /\ req[c].amount.t = "number" /\ req[c].amount.v <= 0 )
        => res[c].kind = "InvalidAmount" /\ Writes(c) = 0

\* the case of C6: both identifiers present and equal, the amount valid
C6_Case(c) ==
    /\ Done(c)
    /\ PresentId(req[c].fromUserId)
    /\ req[c].fromUserId = req[c].toUserId
    /\ PositiveFinite(req[c].amount)

\* C6: a request whose two identifiers are equal (and present, with a valid
\* positive amount) ends with SelfTransfer, whatever the balances and whether
\* or not the identifier names an account, without any store interaction.
C6_SelfTransfer ==
    \A c \in Calls :
        C6_Case(c) =>
            /\ res[c].kind = "SelfTransfer" /\ res[c].status = 400
            /\ res[c].n = 1
            /\ log[c] = <<>>
            /\ atEnd[c] = atStart[c]

\* a self transfer above the account's balance, and one naming no account
C6_Witness ==
    \E c, d \in Calls :
        /\ C6_Case(c) /\ C6_Case(d)
        /\ req[c].fromUserId \in DOMAIN users
        /\ req[c].amount.v > users[req[c].fromUserId].balance
        /\ req[d].fromUserId = NoSuchId
        /\ res[c].kind = "SelfTransfer" /\ res[d].kind = "SelfTransfer"

\* the case of C7 as stated: a validated request between two existing
\* accounts that read a source balance below the amount
C7_Case(c) ==
    /\ Done(c) /\ Validated(req[c])
    /\ req[c].fromUserId \in DOMAIN users
    /\ req[c].toUserId \in DOMAIN users
    /\ Count(c, "done", "findFrom") = 1
    /\ req[c].amount.v > ValueOf(c, "done", "findFrom")

\* C7 as stated: such a request always ends with InsufficientFunds and
\* performs no store write.
C7_AlwaysInsufficientFunds ==
    \A c \in Calls :
        C7_Case(c) => res[c].kind = "InsufficientFunds" /\ Writes(c) = 0

\* C7, amended: a validated request between two existing distinct accounts
\* whose destination lookup completes and whose amount is above the source
\* balance it read ends with InsufficientFunds (400) and performs no store
\* write; run alone, it leaves both balances as they were.
C7_InsufficientFunds ==
    \A c \in Calls :
        (C7_Case(c) /\ Count(c, "done", "findTo") = 1) =>
            /\ res[c].kind = "InsufficientFunds" /\ res[c].status = 400
            /\ Writes(c) = 0
            /\ Count(c, "start", "saveFrom") = 0
            /\ ~overlap[c] => atEnd[c] = atStart[c]

\* a request found both accounts, the source short of the amount
C7_Witness ==
    \E c \in Calls :
        /\ C7_Case(c) /\ Count(c, "done", "findTo") = 1
        /\ res[c].kind = "InsufficientFunds"
        /\ ValueOf(c, "done", "findFrom") > 0

\* no store interaction of the request failed for a reason of the store (a
\* rejected identifier is not one)
NoStoreError(c) == \A i \in DOMAIN log[c] : log[c][i].err # "StoreError"

\* a present identifier that is well-formed and names no account
NamesNoAccount(id) == PresentId(id) /\ id # MalformedId /\ id \notin DOMAIN users

\* C8: a validated request whose source names no account ends with
\* SourceNotFound, and one whose source exists and whose destination names no
\* account ends with DestinationNotFound; neither performs a store write.
C8_NotFound ==
    \A c \in Calls :
        (Done(c) /\ Validated(req[c]) /\ NoStoreError(c)) =>
            /\ NamesNoAccount(req[c].fromUserId) =>
                  res[c].kind = "SourceNotFound" /\ Writes(c) = 0
            /\ (req[c].fromUserId \in DOMAIN users /\ NamesNoAccount(req[c].toUserId)) =>
                  res[c].kind = "DestinationNotFound" /\ Writes(c) = 0

\* the preconditions of the transfer contract, 1 to 6, that a request violates
C9_Violated(c) ==
    LET r == req[c] IN
    {k \in 1..6 :
        \/ k = 1 /\ (~PresentId(r.fromUserId) \/ ~PresentId(r.toUserId)
                        \/ r.amount.t = "undefined")
        \/ k = 2 /\ ~PositiveFinite(r.amount)
        \/ k = 3 /\ r.fromUserId = r.toUserId
        \/ k = 4 /\ NamesNoAccount(r.fromUserId)
        \/ k = 5 /\ NamesNoAccount(r.toUserId)
        \/ k = 6 /\ r.fromUserId \in DOMAIN atStart[c]
                 /\ r.amount.t \in {"number", "Infinity"}
                 /\ LessThan(atStart[c][r.fromUserId].balance, r.amount)}

C9_KindOf(k) ==
    CASE k = 1 -> "MissingField"
      [] k = 2 -> "InvalidAmount"
      [] k = 3 -> "SelfTransfer"
      [] k = 4 -> "SourceNotFound"
      [] k = 5 -> "DestinationNotFound"
      [] OTHER -> "InsufficientFunds"

C9_Earliest(c) == CHOOSE k \in C9_Violated(c) : \A j \in C9_Violated(c) : k <= j

\* C9: a request that violates more than one precondition is answered once,
\* with the failure of the earliest one it violates (identifiers that are no
\* ObjectId and store errors aside).
C9_EarliestFailureWins ==
    \A c \in Calls :
        ( /\ Done(c) /\ NoStoreFailure(c)
          /\ req[c].fromUserId # MalformedId /\ req[c].toUserId # MalformedId
          /\ Cardinality(C9_Violated(c)) >= 2 )
        => res[c].kind = C9_KindOf(C9_Earliest(c)) /\ res[c].n = 1

\* the fixed order of the four store interactions
C10_Order == <<"findFrom", "findTo", "saveFrom", "saveTo">>

\* C10: the store interactions of a request are, in this order and each at
\* most once, findById(from), findById(to), fromUser.save(), toUser.save();
\* each is issued right after the one before it settled, and a rejected one
\* is the request's last.
C10_StoreOrder ==
    \A c \in Calls :
        /\ Len(log[c]) <= 2 * Len(C10_Order)
        /\ \A i \in DOMAIN log[c] :
              /\ log[c][i].op = C10_Order[(i + 1) \div 2]
              /\ i % 2 = 1 => log[c][i].ev = "start"
              /\ i % 2 = 0 => log[c][i].ev \in {"done", "fail"}
              /\ log[c][i].ev = "fail" => i = Len(log[c])
        /\ Done(c) => Len(log[c]) % 2 = 0

\* one request went through all four interactions and another ended at a
\* rejected save of the sender
C10_Witness ==
    \E c, d \in Calls :
        /\ Len(log[c]) = 2 * Len(C10_Order) /\ res[c].kind = "Success"
        /\ Done(d) /\ Count(d, "fail", "saveFrom") = 1

\* the six precondition failures of the transfer contract
PreconditionKinds ==
    {"MissingField", "InvalidAmount", "SelfTransfer",
     "SourceNotFound", "DestinationNotFound", "InsufficientFunds"}

\* the three of them that the validation of the body decides
ValidationKinds == {"MissingField", "InvalidAmount", "SelfTransfer"}

\* C11: success is reported only once both saves settled without rejection:
\* a request answered with success performed exactly two writes, first the
\* sender's then the receiver's, each carrying the balance reported, and none
\* of its store calls failed; a request answered with a precondition failure
\* issued no save.
C11_SuccessAfterBothWrites ==
    \A c \in Calls :
        /\ res[c].kind = "Success" =>
              /\ Done(c) /\ NoStoreFailure(c)
              /\ Count(c, "done", "saveFrom") = 1 /\ Count(c, "done", "saveTo") = 1
              /\ Writes(c) = 2
              /\ log[c][Len(log[c])] = Entry("done", "saveTo", res[c].receiverBalance, "")
              /\ ValueOf(c, "done", "saveFrom") = res[c].senderBalance
        /\ res[c].kind \in PreconditionKinds =>
              /\ Writes(c) = 0
              /\ Count(c, "start", "saveFrom") = 0 /\ Count(c, "start", "saveTo") = 0
        /\ ~Done(c) => res[c] = NoResponse

\* one request succeeded and another ended with InsufficientFunds
C11_Witness ==
    \E c, d \in Calls :
        /\ res[c].kind = "Success" /\ Writes(c) = 2
        /\ res[d].kind = "InsufficientFunds" /\ Writes(d) = 0

\* C12: a request answered with MissingField, InvalidAmount or SelfTransfer
\* made no store interaction (no lookup, no save, none issued), and the
\* collection when it was answered is the collection when it arrived.
C12_ValidationTouchesNoStore ==
    \A c \in Calls :
        res[c].kind \in ValidationKinds =>
            /\ log[c] = <<>>
            /\ fromUser[c] = Null /\ toUser[c] = Null
            /\ atEnd[c] = atStart[c]

\* a validation failure was given to a request that arrived while another
\* request was between its two saves
C12_Witness ==
    \E c, d \in Calls :
        /\ res[c].kind \in ValidationKinds
        /\ pc[d] = "saveTo"
        /\ atStart[c] # [id \in UserIds |-> usersData(id)]

\* some store interaction of the request was rejected
StoreFailed(c) == \E i \in DOMAIN log[c] : log[c][i].ev = "fail"

\* C13: a request one of whose store calls was rejected (either lookup, a
\* malformed identifier included, or either save) is answered once, with
\* OperationalFailure (500): not with success, a NotFound or
\* InsufficientFunds.
C13_StoreFailureIsOperational ==
    \A c \in Calls :
        StoreFailed(c) =>
            /\ Done(c)
            /\ res[c].kind = "OperationalFailure" /\ res[c].status = 500
            /\ res[c].n = 1

\* a lookup of the sender found nothing and the lookup of the receiver was
\* then rejected; another request was given a malformed sender
C13_Witness ==
    \E c, d \in Calls :
        /\ Count(c, "done", "findFrom") = 1 /\ ValueOf(c, "done", "findFrom") = -1
        /\ Count(c, "fail", "findTo") = 1
        /\ req[d].fromUserId = MalformedId /\ Count(d, "fail", "findFrom") = 1

\* the responses a request can be given
ResponseKinds == PreconditionKinds \cup {"Success", "OperationalFailure"}

\* C14: every request received is eventually answered, whatever its body and
\* whatever each store call returns or raises, provided every store call it
\* awaits settles; it is answered exactly once, with success or one failure
\* kind, when its handler ends, and never again.
C14_EveryCallResponds ==
    /\ \A c \in Calls : (pc[c] # "idle") ~> (Done(c) /\ res[c].n = 1)
    /\ [](\A c \in Calls :
            /\ res[c].n = IF Done(c) THEN 1 ELSE 0
            /\ Done(c) => res[c].kind \in ResponseKinds)
    /\ [][\A c \in Calls : Done(c) => res'[c] = res[c] /\ pc'[c] = pc[c]]_vars

\* every request was answered: one after a rejected save, one with a
\* failure of the validation
C14_Witness ==
    /\ \A c \in Calls : Done(c) /\ res[c].n = 1
    /\ \E c, d \in Calls :
          /\ Count(c, "fail", "saveFrom") = 1
          /\ res[d].kind \in ValidationKinds

\* the account whose balance a step of request c may change: its sender's
\* when fromUser.save() settles, its receiver's when toUser.save() settles
C15_Written(c) ==
    IF pc[c] = "saveFrom" THEN {req[c].fromUserId}
    ELSE IF pc[c] = "saveTo" THEN {req[c].toUserId}
    ELSE {}

\* C15: no step of any request creates or deletes an account or changes an
\* account's _id or name; a step changes at most the balance of the sender or
\* of the receiver of the one request that takes it, and only when that
\* request's save of that account settles.
C15_OnlyOwnBalances ==
    [][ /\ DOMAIN users' = DOMAIN users
        /\ \A id \in DOMAIN users :
              /\ users'[id]._id = users[id]._id
              /\ users'[id].name = users[id].name
              /\ users'[id].balance # users[id].balance =>
                    \E c \in Calls :
                        /\ id \in C15_Written(c)
                        /\ pc'[c] # pc[c]
                        /\ \A d \in Calls \ {c} : pc'[d] = pc[d]
        /\ \A c \in Calls :
              (pc'[c] # pc[c]) =>
                  \A id \in DOMAIN users \ C15_Written(c) :
                      users'[id] = users[id]
      ]_vars

\* both balances were changed by a finished transfer, and both accounts
\* still carry their names
C15_Witness ==
    /\ \E c \in Calls : res[c].kind = "Success"
    /\ \A id \in UserIds :
          /\ id \in DOMAIN users
          /\ users[id].balance # usersData(id).balance
          /\ users[id].name = usersData(id).name

\* C16: a request whose lookup of the sender found no account is answered
\* with SourceNotFound, whatever the lookup of the receiver then gives (an
\* account, nothing, or an error); stated for requests with a valid amount
\* and no failure of the store other than a rejected identifier.
C16_SourceNotFoundFirst ==
    \A c \in Calls :
        ( /\ Done(c) /\ Validated(req[c]) /\ NoStoreError(c)
          /\ Count(c, "done", "findFrom") = 1
          /\ ValueOf(c, "done", "findFrom") = -1 )
        => res[c].kind = "SourceNotFound"

\* C17: with both identifiers present and distinct, an amount that is
\* present and is a non-numeric value or an infinite one is answered with
\* InvalidAmount, before any store interaction; stated for requests none of
\* whose store calls is rejected.
C17_NonFiniteIsInvalidAmount ==
    \A c \in Calls :
        ( /\ Done(c) /\ NoStoreFailure(c)
          /\ PresentId(req[c].fromUserId) /\ PresentId(req[c].toUserId)
          /\ req[c].fromUserId # req[c].toUserId
          /\ req[c].amount.t \in {"string", "Infinity"} )
        => res[c].kind = "InvalidAmount" /\ log[c] = <<>>

\* the sum of the balances of the accounts ids of a collection
RECURSIVE SumOf(_, _)
SumOf(coll, ids) ==
    IF ids = {} THEN 0
    ELSE LET id == CHOOSE i \in ids : TRUE
         IN coll[id].balance + SumOf(coll, ids \ {id})

Total(coll) == SumOf(coll, DOMAIN coll)

\* the sum of the balances /create-users stored
InitialTotal == Total([id \in UserIds |-> usersData(id)])

\* no request is between its two saves and no save was rejected
C18_Settled ==
    \A c \in Calls :
        /\ pc[c] # "saveTo"
        /\ Count(c, "fail", "saveFrom") = 0 /\ Count(c, "fail", "saveTo") = 0

\* C18 as stated: in every reachable state the stored balances sum to at most
\* the initial sum, and to exactly the initial sum when no request is between
\* its two saves and no save has failed.
C18_MoneyNeverCreated ==
    /\ Total(users) <= InitialTotal
    /\ C18_Settled => Total(users) = InitialTotal

\* the request issued its saves
C18_Saving(c) == Count(c, "start", "saveFrom") = 1

\* no two requests that both issued their saves were in flight together
C18_NoOverlappingSavers ==
    \A c, d \in Calls :
        (c # d /\ C18_Saving(c) /\ C18_Saving(d)) => ~(overlap[c] /\ overlap[d])

\* C18, amended: as long as no two requests that both reach their saves
\* overlap, the stored balances sum to at most the initial sum, and to
\* exactly the initial sum when no request is between its two saves and no
\* save has failed.
C18_SerialConservation ==
    C18_NoOverlappingSavers =>
        /\ Total(users) <= InitialTotal
        /\ C18_Settled => Total(users) = InitialTotal

\* two transfers that did not overlap both succeeded and changed the
\* balances, which still sum to the initial sum
C18_Witness ==
    \E c, d \in Calls :
        /\ c # d /\ ~overlap[c] /\ ~overlap[d]
        /\ res[c].kind = "Success" /\ res[d].kind = "Success"
        /\ users # [id \in UserIds |-> usersData(id)]
        /\ Total(users) = InitialTotal

\* the requests received so far
Received == {c \in Calls : pc[c] # "idle"}

\* the case of C19: the requests received, two at least, have all ended;
\* they debit one existing source by one finite amount x, each towards an
\* existing account; together they ask for no more than the seeded balance of
\* the source; no store call of any of them was rejected
C19_Case ==
    /\ Cardinality(Received) >= 2
    /\ \A c \in Received :
          /\ Done(c) /\ Validated(req[c]) /\ NoStoreFailure(c)
          /\ req[c].fromUserId \in UserIds /\ req[c].toUserId \in UserIds
    /\ \A c, d \in Received :
          req[c].fromUserId = req[d].fromUserId /\ req[c].amount = req[d].amount
    /\ \A c \in Received :
          Cardinality(Received) * req[c].amount.v <= usersData(req[c].fromUserId).balance

\* C19: when N requests of amount x from one existing source to existing
\* destinations, N*x within the source's initial balance, are the only
\* requests and no store call fails, each of them is answered with success,
\* however they interleave.
C19_AllSucceed ==
    C19_Case => \A c \in Received : res[c].kind = "Success" /\ res[c].status = 200

\* two such requests overlapped and both read the source before either wrote
\* it
C19_Witness ==
    /\ C19_Case
    /\ \A c \in Received : overlap[c] /\ res[c].kind = "Success"
    /\ \E c, d \in Received : c # d /\ res[c].senderBalance = res[d].senderBalance

====
